---- MODULE Spec2Model ----
(***************************************************************************)
(* The dispatch/transition engine and the snapshot stack of Bot            *)
(* (src/src/Bot.js), with the TestService snapshot stack.                  *)
(*                                                                         *)
(* JavaScript runs one synchronous section at a time.  A section that      *)
(* calls a transition hook is split at the hook: while the synchronous     *)
(* part of a hook is running, its frame is on `calls` and only the hook    *)
(* itself can act (call dispatch again, or return).  Every other action    *)
(* needs `calls` to be empty.                                              *)
(***************************************************************************)
EXTENDS Integers, Sequences, FiniteSets, TLC

\* ---------------------------------------------------------------- bounds
MaxDispatch == 3      \* dispatch calls made in one behaviour
MaxInit == 3          \* the counter of the initial state is in 0..MaxInit
MaxPush == 2          \* pushState calls made in one behaviour (bot and service together)
MaxEdit == 1          \* in-place changes made in one behaviour (bot and service together)
MaxSnapshotDispatch == 1  \* dispatch calls made in one behaviour of SpecSnapshot
MaxFormDispatch == 2  \* dispatch calls made in one behaviour of SpecForms
MaxSend == 3          \* sendMessage calls made in one behaviour
MaxPokerDispatch == 2 \* dispatch calls made in one behaviour of SpecPoker
MaxPlanSend == 1      \* messages sent by the plan handler in one behaviour
MaxMessages == 2       \* messages handled in one behaviour of SpecRouter
MaxRequests == 3       \* HTTP requests received in one behaviour
MaxAwait == 3         \* awaitMessage calls made in one behaviour

\* ---------------------------------------------------------------- values
Undefined == 0        \* the reference that stands for undefined / null
NoPayload == [undefined |-> TRUE]    \* a payload argument that was not given
NoAction == [type |-> "", payload |-> NoPayload]
NoArgs == [type |-> [obj |-> FALSE, type |-> ""], payload |-> NoPayload]
Unset == 0            \* transitioning: undefined (after construction) or null

ActionTypes == {"INC", "TWO", "SET", "NOOP", "BAD"}
HookActionTypes == {"INC", "NOOP"}    \* what a transition hook dispatches
Fields == {"people", "rooms", "messages"}
Forms == {"positional", "object"}    \* dispatch(t, p) / dispatch({ type: t, payload: p })

Ids == 1..MaxDispatch
AwaitIds == 1..MaxAwait

\* What TestBot.messages and TestBot.awaiting hold: a message that was sent
\* (id: the number of the sendMessage call) or the { resolve, reject } pair of
\* an awaitMessage call (id: the number of that call).
NoMessage == [content |-> "", to |-> ""]
NoEntry == [waiter |-> FALSE, id |-> 0, message |-> NoMessage]
Sent(n, message) == [waiter |-> FALSE, id |-> n, message |-> message]
Waiter(k) == [waiter |-> TRUE, id |-> k, message |-> NoMessage]

NoLevel == -1         \* the level argument left undefined

\* What the mounted subtree's test resolved to: undefined, false, or a list
\* of action handlers.
NoResult == [value |-> "none", actions |-> <<>>]

\* An HTTP request: its method and its body, which is text that does not
\* parse ("invalid") or an object whose method names what to call ("" when
\* the property is absent).
NoRequest == [method |-> "", json |-> "invalid", call |-> ""]
NoError == [text |-> "", name |-> ""]
NoResponse == [status |-> 0, error |-> FALSE, message |-> NoError]

\* A call of handleMessage that has not been made.
\*   phase     idle | testing (awaiting mount.test) | running (awaiting the
\*             handler invoked last) | done | failed
\*   tested    what mount.test resolved to
\*   invoked   the handlers invoked so far, in order of invocation
\*   results   the results pushed so far, each with the handler it came from
\*   returned  none | undefined | results | rejected
NoHandling ==
    [phase |-> "idle", message |-> [content |-> <<>>, author |-> ""], level |-> NoLevel,
     tested |-> NoResult, invoked |-> <<>>, results |-> <<>>, returned |-> "none"]

\* A call of test that has not been made.
\*   phase     idle | awaiting (handleMessage) | returned
\*   match     what this.match(message) returned
\*   handled   the handleMessage calls it made
\*   result    none | undefined | false | rejected
NoTest ==
    [phase |-> "idle", message |-> [content |-> <<>>, author |-> ""], level |-> NoLevel,
     match |-> "none", handled |-> 0, result |-> "none"]

VARIABLES
    state,          \* this.state: reference of the live state object
    heap,           \* heap[r]: the count field of state object r
    transitioning,  \* this.transitioning: Unset, or the id of the dispatch whose pipeline promise it holds
    queue,          \* this.queue: entries [type, id], id standing for the entry's resolve/reject
    stack,          \* this.stack: snapshots [ref, at], `at` recording the value at push time
    disp,           \* one record per dispatch call (see NoDispatch)
    calls,          \* frames of the hooks whose synchronous part is running, innermost last
    nd,             \* dispatch calls made so far
    reduceLog,      \* ids in the order the reducer was invoked
    commitLog,      \* ids in the order the state commits happened
    service,        \* TestService: field -> reference into sheap
    sheap,          \* sheap[r]: the content of service object r
    sstack,         \* TestService.stack: snapshots [snap, at]
    npush,          \* pushState calls so far
    nedit,          \* in-place changes so far
    bot,            \* the class of the bot: "Counter" (the test bot) or "PokerBot"
    messages,       \* TestBot.messages
    awaiting,       \* TestBot.awaiting
    awaits,         \* awaits[k]: the promise returned by the k-th awaitMessage call
    nsend,          \* sendMessage calls so far
    nawait,         \* awaitMessage calls so far
    plans,          \* the calls of the PokerBot "plan" handler so far
    mounted,        \* this.mount is set
    tc,             \* the latest call of Bot.test
    hm,             \* the latest call of Bot.handleMessage
    nmsg,           \* messages given to the bot so far
    request,        \* the HTTP request received last
    response,       \* the response written to it
    ninvoked,       \* service methods invoked by the HTTP control surface so far
    nreq            \* HTTP requests received so far

\* The variables the engine and snapshot actions leave alone.
testBotVars == <<messages, awaiting, awaits, nsend, nawait>>
routerVars == <<mounted, tc, hm, nmsg>>
httpVars == <<request, response, ninvoked, nreq>>
extVars == <<bot, testBotVars, plans, routerVars, httpVars>>

vars == <<state, heap, transitioning, queue, stack, disp, calls, nd, reduceLog,
          commitLog, service, sheap, sstack, npush, nedit, extVars>>

engineVars == <<state, heap, transitioning, queue, disp, calls, nd, reduceLog, commitLog>>
serviceVars == <<service, sheap, sstack>>

\* A dispatch call that has not been made.
\*   phase     idle | queued | hook | looped | failed | committed | noop | threw
\*   promise   the promise returned by the dispatch call that reduced the action:
\*             none | pending | null | resolved | rejected | threw
\*   outer     the promise returned to a caller whose call was queued:
\*             none | pending | null | resolved | rejected
\*   wired     .then(next.resolve, next.reject) has been attached
\*   seen      the arguments of the transition hook calls, in call order
\*   resolved  how many of those hook calls have resolved
\*   during    the dispatches in flight when the call was made
\*   pre       this.state when the reducer was called
\*   args      the arguments of the call, [type, payload]; a first argument is
\*             a string [obj |-> FALSE, type] or an object [obj |-> TRUE, type, payload]
\*   want      the action type and payload the caller means
\*   action    the action passed to the reducer
NoDispatch ==
    [type |-> "", origin |-> "", phase |-> "idle", next |-> Undefined,
     mutations |-> <<>>, idx |-> 0, promise |-> "none", outer |-> "none",
     wired |-> FALSE, seen |-> <<>>, resolved |-> 0, during |-> {},
     pre |-> Undefined, args |-> NoArgs, want |-> NoAction, action |-> NoAction]

\* The fields a dispatch call reads and writes, as one record.
Engine ==
    [state |-> state, heap |-> heap, transitioning |-> transitioning,
     queue |-> queue, disp |-> disp, calls |-> calls,
     reduceLog |-> reduceLog, commitLog |-> commitLog, bot |-> bot]

Apply(e) ==
    /\ state' = e.state
    /\ heap' = e.heap
    /\ transitioning' = e.transitioning
    /\ queue' = e.queue
    /\ disp' = e.disp
    /\ calls' = e.calls
    /\ reduceLog' = e.reduceLog
    /\ commitLog' = e.commitLog

\* ---------------------------------------------------------------- reducer
\* A first argument of dispatch: an action type, or a pre-built action.
Str(t) == [obj |-> FALSE, type |-> t]
Obj(t, p) == [obj |-> TRUE, type |-> t, payload |-> p]

\* const action = typeof type === "object" ? type : { type, payload }
actionOf(type, payload) ==
    IF type.obj
    THEN [type |-> type.type, payload |-> type.payload]
    ELSE [type |-> type.type, payload |-> payload]

\* emit called with a type only:
\* (type, payload = action.payload) => mutations.push({ type, payload })
emit(mutations, action, type) ==
    Append(mutations, [type |-> type, payload |-> action.payload])

\* The counter reducer of the test scenarios: INC adds 1 and emits one
\* mutation, TWO adds 2 and emits two, SET adds 1 and emits none, BAD throws,
\* anything else returns the state it was given.  Reading the counter of an
\* undefined state throws.
reduce(hp, st, action) ==
    LET fresh(n, ms) == [throws |-> FALSE, next |-> Len(hp) + 1,
                         heap |-> Append(hp, hp[st] + n), mutations |-> ms]
        thrown == [throws |-> TRUE, next |-> st, heap |-> hp, mutations |-> <<>>]
    IN  CASE action.type = "BAD" -> thrown
          [] action.type = "NOOP" ->
                [throws |-> FALSE, next |-> st, heap |-> hp, mutations |-> <<>>]
          [] st = Undefined -> thrown
          [] action.type = "INC" -> fresh(1, emit(<<>>, action, "INC"))
          [] action.type = "TWO" ->
                fresh(2, emit(emit(<<>>, action, "first"), action, "second"))
          [] OTHER -> fresh(1, <<>>)

\* pokerReduce, had PLAN left the tasklist out of the new state
pokerReduceNoTasklist(hp, st, action) ==
    IF action.type = "PLAN" /\ action.payload # NoPayload
    THEN [throws |-> FALSE, next |-> Len(hp) + 1,
          heap |-> Append(hp, [hp[st] EXCEPT !.state = "ready"]),
          mutations |-> <<>>]
    ELSE [throws |-> action.type = "PLAN", next |-> st, heap |-> hp, mutations |-> <<>>]

\* PokerBot.reduce(state, action): PLAN copies the state with state "ready"
\* and the tasklist of the payload; it never calls emit.  Destructuring the
\* payload throws when there is none.
pokerReduce(hp, st, action) ==
    CASE action.type = "PLAN" /\ action.payload = NoPayload ->
            [throws |-> TRUE, next |-> st, heap |-> hp, mutations |-> <<>>]
      [] action.type = "PLAN" ->
            [throws |-> FALSE, next |-> Len(hp) + 1,
             heap |-> Append(hp, [hp[st] EXCEPT !.state = "ready",
                                                !.tasklist = action.payload.tasklist]),
             mutations |-> <<>>]
      [] OTHER -> [throws |-> FALSE, next |-> st, heap |-> hp, mutations |-> <<>>]

\* this.reduce(this.state, action, emit) of the bot's class
reduceOf(e, action) ==
    IF e.bot = "PokerBot"
    THEN pokerReduce(e.heap, e.state, action)
    ELSE reduce(e.heap, e.state, action)

\* Rule.setState(state)
setState(e, s) == [e EXCEPT !.state = s]

\* ---------------------------------------------------------------- dispatch
\* busy, had the call never looked at the marker
busyNever(tr) == FALSE

\* if(this.transitioning)
busy(tr) == tr # Unset

\* push, had the entry been stored without its payload
pushTypeOnly(q, type, payload, d) ==
    Append(q, [type |-> type, payload |-> NoPayload, id |-> d])

\* this.queue.push({ type, payload, resolve, reject })
push(q, type, payload, d) == Append(q, [type |-> type, payload |-> payload, id |-> d])

\* this.queue.shift()
shift(q) == [next |-> Head(q), rest |-> Tail(q)]

\* this.state === nextState
sameState(a, b) == a = b

\* mutationAt, had the loop visited the mutations last to first
mutationAtReversed(mutations, i) == mutations[Len(mutations) + 1 - i]

\* for(let mutation of mutations): the i-th mutation visited
mutationAt(mutations, i) == mutations[i]

\* The dispatches that have passed their reducer call and have not committed
\* or failed.
InFlightIn(dp) == {d \in Ids : dp[d].phase \in {"hook", "looped"}}
InFlight == InFlightIn(disp)

\* this.transition(action, this.state, nextState, mutation): the call of the
\* hook for the i-th mutation visited; its synchronous part starts running.
\* `assign` says that the assignment to this.transitioning is waiting for it.
transition(e, d, i, assign) ==
    LET m == mutationAt(e.disp[d].mutations, i)
        arg == [mutation |-> m, currentState |-> e.state, nextState |-> e.disp[d].next]
    IN  [e EXCEPT !.disp[d].phase = "hook",
                  !.disp[d].idx = i,
                  !.disp[d].seen = Append(@, arg),
                  !.calls = Append(@, [id |-> d, assign |-> assign])]

\* noop, had the branch stored its promise in this.transitioning
noopMarking(e, d) ==
    [e EXCEPT !.disp[d].phase = "noop", !.disp[d].promise = "null", !.transitioning = d]

\* return Promise.resolve(null)
noop(e, d) == [e EXCEPT !.disp[d].phase = "noop", !.disp[d].promise = "null"]

\* return this.transitioning = (async () => { ... })().then(...): the part that
\* runs inside the dispatch call.  With no mutation the loop is over at once
\* and the assignment follows; otherwise the first hook is called first.
pipeline(e, d, r) ==
    LET e1 == [e EXCEPT !.heap = r.heap,
                        !.disp[d].next = r.next,
                        !.disp[d].mutations = r.mutations,
                        !.disp[d].promise = "pending"]
    IN  IF r.mutations = <<>>
        THEN [e1 EXCEPT !.transitioning = d, !.disp[d].phase = "looped"]
        ELSE transition(e1, d, 1, TRUE)

\* Bot.dispatch(type, payload), up to the point where it returns or calls the
\* first transition hook.
dispatch(e, d, type, payload) ==
    IF busy(e.transitioning)
    THEN [e EXCEPT !.queue = push(@, type, payload, d),
                   !.disp[d].phase = "queued",
                   !.disp[d].outer = "pending"]
    ELSE LET action == actionOf(type, payload)
             r == reduceOf(e, action)
             e1 == [e EXCEPT !.reduceLog = Append(@, d),
                             !.disp[d].pre = e.state,
                             !.disp[d].action = action]
         IN  IF r.throws
             THEN [e1 EXCEPT !.disp[d].phase = "threw", !.disp[d].promise = "threw"]
             ELSE IF sameState(e.state, r.next)
                  THEN noop(e1, d)
                  ELSE pipeline(e1, d, r)

\* The arguments with which a caller asks for action type t with payload p:
\* dispatch(t, p), or dispatch({ type: t, payload: p }).
argsOf(form, t, p) ==
    IF form = "object"
    THEN [type |-> Obj(t, p), payload |-> NoPayload]
    ELSE [type |-> Str(t), payload |-> p]

\* A new dispatch call, number d, made by `origin` in the given form.
call(e, d, form, t, p, origin) ==
    LET args == argsOf(form, t, p)
    IN  dispatch([e EXCEPT !.disp[d].type = t,
                           !.disp[d].want = [type |-> t, payload |-> p],
                           !.disp[d].args = args,
                           !.disp[d].origin = origin,
                           !.disp[d].during = InFlightIn(e.disp)],
                 d, args.type, args.payload)

\* wire, had the drain called next.resolve as soon as the entry was shifted
wireResolving(rec) == [rec EXCEPT !.wired = TRUE, !.outer = "resolved"]

\* .then(next.resolve, next.reject) on the promise the replayed call returned
wire(rec) == [rec EXCEPT !.wired = TRUE]

\* The .then callback of a pipeline: commit, clear the marker, replay the
\* oldest queued entry.  A reducer that throws in the replay throws out of the
\* callback, so the promise of d rejects and the entry is never wired.
commit(e, d) ==
    LET e1 == [setState(e, e.disp[d].next) EXCEPT !.transitioning = Unset,
                                                  !.commitLog = Append(@, d),
                                                  !.disp[d].phase = "committed"]
    IN  IF Len(e1.queue) = 0
        THEN [e1 EXCEPT !.disp[d].promise = "resolved"]
        ELSE LET s == shift(e1.queue)
                 e2 == dispatch([e1 EXCEPT !.queue = s.rest],
                                s.next.id, s.next.type, s.next.payload)
             IN  IF e2.disp[s.next.id].phase = "threw"
                 THEN [e2 EXCEPT !.disp[d].promise = "rejected"]
                 ELSE [e2 EXCEPT !.disp[d].promise = "resolved",
                                 !.disp[s.next.id] = wire(@)]

\* ---------------------------------------------------------------- actions
InitWith(b, h) ==
    /\ state = 1
    /\ heap = h
    /\ transitioning = Unset
    /\ queue = <<>>
    /\ stack = <<>>
    /\ disp = [d \in Ids |-> NoDispatch]
    /\ calls = <<>>
    /\ nd = 0
    /\ reduceLog = <<>>
    /\ commitLog = <<>>
    /\ service = [f \in Fields |-> CASE f = "people" -> 1 [] f = "rooms" -> 2 [] OTHER -> 3]
    /\ sheap = <<0, 0, 0>>
    /\ sstack = <<>>
    /\ npush = 0
    /\ nedit = 0
    /\ bot = b
    /\ messages = <<>>
    /\ awaiting = <<>>
    /\ awaits = [k \in AwaitIds |-> [promise |-> "none", value |-> NoEntry]]
    /\ nsend = 0
    /\ nawait = 0
    /\ plans = <<>>
    /\ mounted = FALSE
    /\ tc = NoTest
    /\ hm = NoHandling
    /\ nmsg = 0
    /\ request = NoRequest
    /\ response = NoResponse
    /\ ninvoked = 0
    /\ nreq = 0

\* A bot with the counter reducer, its counter at any value in 0..MaxInit.
Init == \E c \in 0..MaxInit : InitWith("Counter", <<c>>)

\* dispatch(t, p) or dispatch({ type: t, payload: p }) called by an outside
\* caller or an action handler
DispatchForm(form, t, p) ==
    /\ calls = <<>>
    /\ nd < MaxDispatch
    /\ Apply(call(Engine, nd + 1, form, t, p, "caller"))
    /\ nd' = nd + 1
    /\ UNCHANGED <<stack, serviceVars, npush, nedit>>
    /\ UNCHANGED extVars

\* dispatch(type) called by an outside caller or an action handler
Dispatch(type) ==
    /\ calls = <<>>
    /\ nd < MaxDispatch
    /\ Apply(call(Engine, nd + 1, "positional", type, NoPayload, "caller"))
    /\ nd' = nd + 1
    /\ UNCHANGED <<stack, serviceVars, npush, nedit>>
    /\ UNCHANGED extVars

\* dispatch called by the transition hook whose synchronous part is running
HookDispatch(type) ==
    /\ calls # <<>>
    /\ nd < MaxDispatch
    /\ Apply(call(Engine, nd + 1, "positional", type, NoPayload, "hook"))
    /\ nd' = nd + 1
    /\ UNCHANGED <<stack, serviceVars, npush, nedit>>
    /\ UNCHANGED extVars

\* The running hook returns its promise; the code that called it goes on to
\* its await, and the dispatch call that started the pipeline assigns
\* this.transitioning.
HookReturn ==
    /\ calls # <<>>
    /\ LET f == calls[Len(calls)]
       IN  /\ calls' = SubSeq(calls, 1, Len(calls) - 1)
           /\ transitioning' = IF f.assign THEN f.id ELSE transitioning
    /\ UNCHANGED <<state, heap, queue, stack, disp, nd, reduceLog, commitLog,
                   serviceVars, npush, nedit>>
    /\ UNCHANGED extVars

\* The promise of the pending hook of d resolves and the loop goes on: the
\* next hook is called, or the loop ends and the .then callback is scheduled.
HookResolve(d) ==
    /\ calls = <<>>
    /\ disp[d].phase = "hook"
    /\ LET e == [Engine EXCEPT !.disp[d].resolved = @ + 1]
       IN  IF disp[d].idx < Len(disp[d].mutations)
           THEN Apply(transition(e, d, disp[d].idx + 1, FALSE))
           ELSE Apply([e EXCEPT !.disp[d].phase = "looped"])
    /\ UNCHANGED <<stack, nd, serviceVars, npush, nedit>>
    /\ UNCHANGED extVars

\* The pending hook of d rejects (or threw): the loop ends, the .then callback
\* is skipped and the promise of the dispatch rejects.
HookReject(d) ==
    /\ calls = <<>>
    /\ disp[d].phase = "hook"
    /\ disp' = [disp EXCEPT ![d].phase = "failed", ![d].promise = "rejected"]
    /\ UNCHANGED <<state, heap, transitioning, queue, stack, calls, nd, reduceLog,
                   commitLog, serviceVars, npush, nedit>>
    /\ UNCHANGED extVars

\* The .then callback of the pipeline of d runs.
Commit(d) ==
    /\ calls = <<>>
    /\ disp[d].phase = "looped"
    /\ Apply(commit(Engine, d))
    /\ UNCHANGED <<stack, nd, serviceVars, npush, nedit>>
    /\ UNCHANGED extVars

\* The promise of a replayed call has settled: next.resolve / next.reject runs.
Settle(d) ==
    /\ calls = <<>>
    /\ disp[d].wired
    /\ disp[d].outer = "pending"
    /\ disp[d].promise \in {"null", "resolved", "rejected"}
    /\ disp' = [disp EXCEPT ![d].outer = disp[d].promise]
    /\ UNCHANGED <<state, heap, transitioning, queue, stack, calls, nd, reduceLog,
                   commitLog, serviceVars, npush, nedit>>
    /\ UNCHANGED extVars

Next ==
    \/ \E type \in ActionTypes : Dispatch(type)
    \/ \E type \in HookActionTypes : HookDispatch(type)
    \/ HookReturn
    \/ \E d \in Ids : HookResolve(d)
    \/ \E d \in Ids : HookReject(d)
    \/ \E d \in Ids : Commit(d)
    \/ \E d \in Ids : Settle(d)

Spec == Init /\ [][Next]_vars

\* ---------------------------------------------------------------- back-to-back
\* Scenario C: an outside caller dispatches INC again and again, every later
\* call made before the promise of the first call has settled; the hooks do
\* not dispatch and they resolve.
BackToBack ==
    /\ nd = 0 \/ disp[1].promise = "pending"
    /\ Dispatch("INC")

NextBackToBack ==
    \/ BackToBack
    \/ HookReturn
    \/ \E d \in Ids : HookResolve(d)
    \/ \E d \in Ids : Commit(d)
    \/ \E d \in Ids : Settle(d)

SpecBackToBack == Init /\ [][NextBackToBack]_vars

\* ---------------------------------------------------------------- snapshots
\* The value a reference stands for; -1 for undefined.
ValueOf(hp, r) == IF r = Undefined THEN -1 ELSE hp[r]

\* cloneDeep, had the snapshot been the live object itself
cloneDeepShared(hp, r) == [ref |-> r, heap |-> hp]

\* lodash cloneDeep of a state object: a new object with the same content.
cloneDeep(hp, r) ==
    IF r = Undefined
    THEN [ref |-> Undefined, heap |-> hp]
    ELSE [ref |-> Len(hp) + 1, heap |-> Append(hp, hp[r])]

\* Bot.pushState(): this.stack.push(cloneDeep(this.state))
PushState ==
    /\ calls = <<>>
    /\ npush < MaxPush
    /\ LET c == cloneDeep(heap, state)
       IN  /\ heap' = c.heap
           /\ stack' = Append(stack, [ref |-> c.ref, at |-> ValueOf(heap, state)])
    /\ npush' = npush + 1
    /\ UNCHANGED <<state, transitioning, queue, disp, calls, nd, reduceLog, commitLog,
                   serviceVars, nedit>>
    /\ UNCHANGED extVars

\* pop, had it taken the oldest element
popOldest(s) == [top |-> Head(s), rest |-> Tail(s)]

\* Array.prototype.pop() of a non-empty array: the last element and the rest
pop(s) == [top |-> s[Len(s)], rest |-> SubSeq(s, 1, Len(s) - 1)]

\* Bot.popState(): this.setState(this.stack.pop()); pop() of an empty array
\* is undefined.
PopState ==
    /\ calls = <<>>
    /\ IF Len(stack) = 0
       THEN /\ state' = setState(Engine, Undefined).state
            /\ stack' = stack
       ELSE /\ state' = setState(Engine, pop(stack).top.ref).state
            /\ stack' = pop(stack).rest
    /\ UNCHANGED <<heap, transitioning, queue, disp, calls, nd, reduceLog, commitLog,
                   serviceVars, npush, nedit>>
    /\ UNCHANGED extVars

\* A holder of the live state object (this.state, toJSON()) changes it in place.
EditState ==
    /\ calls = <<>>
    /\ nedit < MaxEdit
    /\ state # Undefined
    /\ heap' = [heap EXCEPT ![state] = @ + 1]
    /\ nedit' = nedit + 1
    /\ UNCHANGED <<state, transitioning, queue, stack, disp, calls, nd, reduceLog,
                   commitLog, serviceVars, npush>>
    /\ UNCHANGED extVars

\* lodash pick(this, "people", "rooms", "messages")
pick(obj, fields) == [f \in fields |-> obj[f]]

\* The place of a field among the objects a deep copy allocates.
FieldIndex(f) == CASE f = "people" -> 1 [] f = "rooms" -> 2 [] OTHER -> 3

\* lodash cloneDeep of a picked object: every field gets a new object with the
\* same content.
cloneDeepFields(hp, obj) ==
    [snap |-> [f \in DOMAIN obj |-> Len(hp) + FieldIndex(f)],
     heap |-> hp \o <<hp[obj["people"]], hp[obj["rooms"]], hp[obj["messages"]]>>]

\* What TestService.pushState() does to the service.
servicePushState ==
    /\ npush < MaxPush
    /\ LET c == cloneDeepFields(sheap, pick(service, Fields))
       IN  /\ sheap' = c.heap
           /\ sstack' = Append(sstack, [snap |-> c.snap,
                                        at |-> [f \in Fields |-> sheap[service[f]]]])
    /\ npush' = npush + 1
    /\ UNCHANGED service

\* What TestService.popState() does to the service:
\* Object.assign(this, this.stack.pop()); assigning undefined changes nothing.
servicePopState ==
    /\ IF Len(sstack) = 0
       THEN UNCHANGED <<service, sstack>>
       ELSE /\ service' = [f \in Fields |-> pop(sstack).top.snap[f]]
            /\ sstack' = pop(sstack).rest
    /\ UNCHANGED <<sheap, npush>>

\* TestService.pushState()
ServicePushState ==
    /\ servicePushState
    /\ UNCHANGED <<engineVars, stack, nedit>>
    /\ UNCHANGED extVars

\* TestService.popState()
ServicePopState ==
    /\ servicePopState
    /\ UNCHANGED <<engineVars, stack, nedit>>
    /\ UNCHANGED extVars

\* The service adds to one of its collections in place.
ServiceEdit(f) ==
    /\ nedit < MaxEdit
    /\ sheap' = [sheap EXCEPT ![service[f]] = @ + 1]
    /\ nedit' = nedit + 1
    /\ UNCHANGED <<engineVars, stack, service, sstack, npush>>
    /\ UNCHANGED extVars

\* The initial state whose counter is 0.
InitSnapshot == Init /\ heap = <<0>>

\* An outside caller dispatches INC.
SnapshotDispatch ==
    /\ nd < MaxSnapshotDispatch
    /\ Dispatch("INC")

NextSnapshot ==
    \/ SnapshotDispatch
    \/ HookReturn
    \/ \E d \in Ids : HookResolve(d)
    \/ \E d \in Ids : Commit(d)
    \/ PushState
    \/ PopState
    \/ EditState
    \/ ServicePushState
    \/ ServicePopState
    \/ \E f \in Fields : ServiceEdit(f)

SpecSnapshot == InitSnapshot /\ [][NextSnapshot]_vars

\* ---------------------------------------------------------------------------
\* TestBot: the message buffer between sendMessage and awaitMessage.
TestBot == [messages |-> messages, awaiting |-> awaiting, awaits |-> awaits]

\* TestBot.awaitMessage(), call number k
awaitMessage(tb, k) ==
    IF Len(tb.messages) > 0
    THEN [tb EXCEPT !.awaits[k] = [promise |-> "resolved", value |-> Head(tb.messages)],
                    !.messages = Tail(@)]
    ELSE [tb EXCEPT !.awaits[k] = [promise |-> "pending", value |-> NoEntry],
                    !.messages = Append(@, Waiter(k))]

\* TestBot.sendMessage(message), call number n
sendMessage(tb, n, message) ==
    IF Len(tb.awaiting) > 0
    THEN LET k == Head(tb.awaiting).id
         IN  [tb EXCEPT !.awaits[k] = [promise |-> "resolved", value |-> Sent(n, message)],
                        !.awaiting = Tail(@)]
    ELSE [tb EXCEPT !.messages = Append(@, Sent(n, message))]

ApplyTestBot(tb) ==
    /\ messages' = tb.messages
    /\ awaiting' = tb.awaiting
    /\ awaits' = tb.awaits

Contents == {"hello", "bye"}

AwaitMessage ==
    /\ nawait < MaxAwait
    /\ ApplyTestBot(awaitMessage(TestBot, nawait + 1))
    /\ nawait' = nawait + 1
    /\ UNCHANGED <<engineVars, stack, serviceVars, npush, nedit, bot, nsend, plans,
                   routerVars, httpVars>>

SendMessage(content) ==
    /\ nsend < MaxSend
    /\ ApplyTestBot(sendMessage(TestBot, nsend + 1, [content |-> content, to |-> "ann"]))
    /\ nsend' = nsend + 1
    /\ UNCHANGED <<engineVars, stack, serviceVars, npush, nedit, bot, nawait, plans,
                   routerVars, httpVars>>

InitTestBot == Init /\ heap = <<0>>

NextTestBot ==
    \/ AwaitMessage
    \/ \E content \in Contents : SendMessage(content)

SpecTestBot == InitTestBot /\ [][NextTestBot]_vars


\* ---------------------------------------------------------------------------
\* PokerBot, wrapped by TestBot.

\* this.state after PokerBot's constructor; tasklist is not set yet.
PokerState ==
    [room |-> "lobby", moderator |-> "ann", participants |-> {"bob", "cy"},
     state |-> "waiting", currentRound |-> "null",
     rounds |-> [pending |-> <<>>, completed |-> <<>>, skipped |-> <<>>],
     tasklist |-> <<>>]

\* Message contents, as sequences of pieces; a piece of one character stands
\* where the pattern has its dot.
TaskContents ==
    {<<"http://", "teamwork", ".", "com", "/x">>,
     <<"teamwork", "X", "com">>,
     <<"teamwork", ".", "co">>,
     <<"teamwork", "com">>,
     <<"hello">>}

AnyChar == {".", "X", "/"}

\* matches, had the dot of the pattern stood for a dot only
matchesLiteralDot(content) ==
    \E i \in 1..Len(content) :
        /\ i + 2 <= Len(content)
        /\ content[i] = "teamwork"
        /\ content[i + 1] = "."
        /\ content[i + 2] = "com"

\* content.match(/teamwork.com/): "teamwork", any one character, "com",
\* anywhere in the content
matches(content) ==
    \E i \in 1..Len(content) :
        /\ i + 2 <= Len(content)
        /\ content[i] = "teamwork"
        /\ content[i + 1] \in AnyChar
        /\ content[i + 2] = "com"

UhOh == "Uh oh, I don't recognize that tasklist!"

\* PokerBot.plan({ content, author }); d and n number the dispatch call and
\* the sendMessage call it may make.
plan(e, tb, d, n, content, author) ==
    IF ~matches(content)
    THEN [engine |-> e,
          testbot |-> sendMessage(tb, n, [content |-> UhOh, to |-> author]),
          returned |-> "resolved"]
    ELSE [engine |-> call(e, d, "positional", "PLAN", [tasklist |-> content], "caller"),
          testbot |-> tb,
          returned |-> "dispatch"]

Authors == {"ann", "bob"}

\* The "plan" command handler is called with a message.
Plan(content, author) ==
    /\ calls = <<>>
    /\ IF matches(content) THEN nd < MaxPokerDispatch ELSE nsend < MaxPlanSend
    /\ LET r == plan(Engine, TestBot, nd + 1, nsend + 1, content, author)
       IN  /\ Apply(r.engine)
           /\ ApplyTestBot(r.testbot)
           /\ nd' = IF r.returned = "dispatch" THEN nd + 1 ELSE nd
           /\ nsend' = IF r.returned = "dispatch" THEN nsend ELSE nsend + 1
           /\ plans' = Append(plans, [content |-> content, author |-> author,
                                      returned |-> r.returned])
    /\ UNCHANGED <<stack, serviceVars, npush, nedit, bot, nawait, routerVars, httpVars>>

PokerTypes == {"PLAN", "START"}
PokerTasklists == {<<"teamwork", ".", "com", "/y">>}

\* dispatch({ type: t, payload: { tasklist } }) called on the PokerBot directly
PokerDispatch(t, tasklist) ==
    /\ nd < MaxPokerDispatch
    /\ DispatchForm("object", t, [tasklist |-> tasklist])

InitPoker == InitWith("PokerBot", <<PokerState>>)

NextPoker ==
    \/ \E content \in TaskContents : \E author \in Authors : Plan(content, author)
    \/ \E t \in PokerTypes : \E tasklist \in PokerTasklists : PokerDispatch(t, tasklist)
    \/ \E d \in Ids : Commit(d)
    \/ \E d \in Ids : Settle(d)

SpecPoker == InitPoker /\ [][NextPoker]_vars


\* ---------------------------------------------------------------------------
\* The rule tree router: Bot.test and Bot.handleMessage.
Router == [mounted |-> mounted, tc |-> tc, hm |-> hm]

ApplyRouter(r) ==
    /\ mounted' = r.mounted
    /\ tc' = r.tc
    /\ hm' = r.hm

\* Rule.transform(message, transform): "same" leaves the message as it is,
\* "tail" yields a message whose content lost its first word.
transformMessage(message, transform) ==
    IF transform = "tail"
    THEN [message EXCEPT !.content = Tail(@)]
    ELSE message

\* invoke, had every remaining handler been called at once
invokeRest(h, i) ==
    [h EXCEPT !.phase = "running",
              !.invoked = @ \o SubSeq(h.tested.actions, i, Len(h.tested.actions))]

\* action(message) for the i-th action of the list; its promise is awaited
invoke(h, i) ==
    [h EXCEPT !.phase = "running", !.invoked = Append(@, h.tested.actions[i])]

\* Bot.handleMessage(message, debug, level), up to the await of mount.test
handleMessage(r, message, level) ==
    [r EXCEPT !.mounted = TRUE,
              !.hm = [NoHandling EXCEPT !.phase = "testing",
                                        !.message = message,
                                        !.level = level]]

\* handleMessage after mount.test has resolved to res: if(actions) { ... }
tested(h, res) ==
    LET h1 == [h EXCEPT !.tested = res]
    IN  IF res.value # "list"
        THEN [h1 EXCEPT !.phase = "done", !.returned = "undefined"]
        ELSE IF res.actions = <<>>
             THEN [h1 EXCEPT !.phase = "done", !.returned = "results"]
             ELSE invoke(h1, 1)

\* results.push(await action(message)) once the handler's promise resolved
\* with v, and the next turn of the loop
pushResult(h, v) ==
    LET n == Len(h.results) + 1
        h1 == [h EXCEPT !.results = Append(@, [by |-> h.tested.actions[n], value |-> v])]
    IN  IF n < Len(h.tested.actions)
        THEN invoke(h1, n + 1)
        ELSE [h1 EXCEPT !.phase = "done", !.returned = "results"]

\* test, had it returned false without awaiting handleMessage
testNoAwait(r, message, m, level) ==
    IF m = "false"
    THEN [r EXCEPT !.tc = [NoTest EXCEPT !.phase = "returned", !.message = message,
                                         !.level = level, !.match = m,
                                         !.result = "undefined"]]
    ELSE [handleMessage(r, transformMessage(message, m), level + 1) EXCEPT
             !.tc = [NoTest EXCEPT !.phase = "returned", !.message = message,
                                   !.level = level, !.match = m,
                                   !.handled = 1, !.result = "false"]]

\* Bot.test(message, debug, level), up to its return or its await; m is what
\* this.match(message) returned
test(r, message, m, level) ==
    IF m = "false"
    THEN [r EXCEPT !.tc = [NoTest EXCEPT !.phase = "returned", !.message = message,
                                         !.level = level, !.match = m,
                                         !.result = "undefined"]]
    ELSE [handleMessage(r, transformMessage(message, m), level + 1) EXCEPT
             !.tc = [NoTest EXCEPT !.phase = "awaiting", !.message = message,
                                   !.level = level, !.match = m,
                                   !.handled = 1]]

RouterMessages ==
    {[content |-> <<"plan", "x">>, author |-> "ann"], [content |-> <<"hi">>, author |-> "bob"]}
MatchResults == {"false", "same", "tail"}
Levels == {0, 1}
HandlerNames == {"h1", "h2"}
ActionLists ==
    {<<>>} \cup {<<a>> : a \in HandlerNames} \cup {<<a, b>> : a, b \in HandlerNames}
TestResults ==
    {[value |-> "undefined", actions |-> <<>>], [value |-> "false", actions |-> <<>>]}
        \cup {[value |-> "list", actions |-> l] : l \in ActionLists}
HandlerValues == {"ok", "undefined"}

RouterIdle == tc.phase # "awaiting" /\ hm.phase \notin {"testing", "running"}

\* test(message) is called on the bot
Test(message, m, level) ==
    /\ RouterIdle
    /\ nmsg < MaxMessages
    /\ ApplyRouter(test(Router, message, m, level))
    /\ nmsg' = nmsg + 1
    /\ UNCHANGED <<engineVars, stack, serviceVars, npush, nedit, bot, testBotVars, plans,
                   httpVars>>

\* handleMessage(message) is called on the bot by the delivery collaborator
HandleMessage(message) ==
    /\ RouterIdle
    /\ nmsg < MaxMessages
    /\ ApplyRouter([handleMessage(Router, message, NoLevel) EXCEPT !.tc = NoTest])
    /\ nmsg' = nmsg + 1
    /\ UNCHANGED <<engineVars, stack, serviceVars, npush, nedit, bot, testBotVars, plans,
                   httpVars>>

\* the promise of mount.test resolves to res
MountTested(res) ==
    /\ hm.phase = "testing"
    /\ hm' = tested(hm, res)
    /\ UNCHANGED <<engineVars, stack, serviceVars, npush, nedit, bot, testBotVars, plans,
                   httpVars, mounted, tc, nmsg>>

\* the promise of the handler invoked last resolves with v
HandlerResolve(v) ==
    /\ hm.phase = "running"
    /\ hm' = pushResult(hm, v)
    /\ UNCHANGED <<engineVars, stack, serviceVars, npush, nedit, bot, testBotVars, plans,
                   httpVars, mounted, tc, nmsg>>

\* the promise of the handler invoked last rejects: the await throws and the
\* promise of handleMessage rejects
HandlerReject ==
    /\ hm.phase = "running"
    /\ hm' = [hm EXCEPT !.phase = "failed", !.returned = "rejected"]
    /\ UNCHANGED <<engineVars, stack, serviceVars, npush, nedit, bot, testBotVars, plans,
                   httpVars, mounted, tc, nmsg>>

\* await this.handleMessage(...) in test is over: return false, or rethrow
TestReturn ==
    /\ tc.phase = "awaiting"
    /\ hm.phase \in {"done", "failed"}
    /\ tc' = [tc EXCEPT !.phase = "returned",
                        !.result = IF hm.phase = "done" THEN "false" ELSE "rejected"]
    /\ UNCHANGED <<engineVars, stack, serviceVars, npush, nedit, bot, testBotVars, plans,
                   httpVars, mounted, hm, nmsg>>

InitRouter == Init /\ heap = <<0>>

NextRouter ==
    \/ \E message \in RouterMessages : \E m \in MatchResults : \E level \in Levels :
            Test(message, m, level)
    \/ \E message \in RouterMessages : HandleMessage(message)
    \/ \E res \in TestResults : MountTested(res)
    \/ \E v \in HandlerValues : HandlerResolve(v)
    \/ HandlerReject
    \/ TestReturn

SpecRouter == InitRouter /\ [][NextRouter]_vars


\* ---------------------------------------------------------------------------
\* The HTTP control surface of TestService: listen and handleRequest.

\* What this[body.method] finds on the service, and which of it can be called.
Members == {"pushState", "popState", "stack"}
Callable == {"pushState", "popState"}

NotPost == [text |-> "The bot API only accepts POST requests.", name |-> ""]
BadJson == [text |-> "SyntaxError", name |-> ""]
MissingMethod == [text |-> "Body missing method property.", name |-> ""]
NoSuchMethod(name) == [text |-> "Bot does not have method", name |-> name]
NotAFunction(name) == [text |-> "TypeError", name |-> name]

\* firstError, had the body been looked at before the request method
firstErrorBodyFirst(req) ==
    CASE req.json = "invalid" -> BadJson
      [] req.call = "" -> MissingMethod
      [] req.call \notin Members -> NoSuchMethod(req.call)
      [] req.method # "POST" -> NotPost
      [] req.call \notin Callable -> NotAFunction(req.call)
      [] OTHER -> NoError

\* TestService.handleRequest(req): the error thrown before any method of the
\* service runs, NoError when the method named by the body is called.
firstError(req) ==
    CASE req.method # "POST" -> NotPost
      [] req.json = "invalid" -> BadJson
      [] req.call = "" -> MissingMethod
      [] req.call \notin Members -> NoSuchMethod(req.call)
      [] req.call \notin Callable -> NotAFunction(req.call)
      [] OTHER -> NoError

OkStatus == 200       \* res.writeHead(status || 200)
ErrorStatus == 500    \* status: 500

\* The callback of http.createServer: the error is caught and turned into
\* the error envelope; the response is written and ended.
respond(err) ==
    IF err = NoError
    THEN [status |-> OkStatus, error |-> FALSE, message |-> NoError]
    ELSE [status |-> ErrorStatus, error |-> TRUE, message |-> err]

Requests ==
    [method : {"GET", "POST"}, json : {"object"},
     call : {"", "unknownFn", "pushState", "popState", "stack"}]
        \cup [method : {"GET", "POST"}, json : {"invalid"}, call : {""}]

\* The server receives a request and answers it.
Request(req) ==
    /\ nreq < MaxRequests
    /\ LET err == firstError(req)
       IN  /\ response' = respond(err)
           /\ IF err # NoError
              THEN UNCHANGED <<serviceVars, npush, ninvoked>>
              ELSE /\ ninvoked' = ninvoked + 1
                   /\ IF req.call = "pushState" THEN servicePushState ELSE servicePopState
    /\ request' = req
    /\ nreq' = nreq + 1
    /\ UNCHANGED <<engineVars, stack, nedit, bot, testBotVars, plans, routerVars>>

InitHttp == Init /\ heap = <<0>>

NextHttp ==
    \/ \E req \in Requests : Request(req)
    \/ \E f \in Fields : ServiceEdit(f)

SpecHttp == InitHttp /\ [][NextHttp]_vars


\* ---------------------------------------------------------------------------
\* The two call forms: every dispatch is made either as dispatch(t, p) or as
\* dispatch({ type: t, payload: p }), with and without a payload.
FormTypes == {"INC", "TWO", "NOOP"}
Payloads == {NoPayload, [tasklist |-> "t1"]}

FormDispatch(form, t, p) ==
    /\ nd < MaxFormDispatch
    /\ DispatchForm(form, t, p)

NextForms ==
    \/ \E form \in Forms : \E t \in FormTypes : \E p \in Payloads :
            FormDispatch(form, t, p)
    \/ HookReturn
    \/ \E d \in Ids : HookResolve(d)
    \/ \E d \in Ids : Commit(d)
    \/ \E d \in Ids : Settle(d)

SpecForms == Init /\ [][NextForms]_vars


\* ---------------------------------------------------------------- properties
Reduced(d) == \E i \in 1..Len(reduceLog) : reduceLog[i] = d
Committed(d) == \E i \in 1..Len(commitLog) : commitLog[i] = d
WasQueued(d) == disp[d].outer # "none"

\* Nothing is left for the engine to do on its own: no hook is running or
\* pending, no .then callback is scheduled, no settled promise waits to be
\* passed on.
Quiescent ==
    /\ calls = <<>>
    /\ InFlight = {}
    /\ \A d \in Ids : ~(disp[d].wired /\ disp[d].outer = "pending"
                        /\ disp[d].promise \in {"null", "resolved", "rejected"})

\* C1: at most one dispatch is between its reducer call and its commit.
C1_AtMostOneInFlight == Cardinality(InFlight) <= 1

\* C2: a dispatch issued while another is in flight is not reduced before that
\* one's commit, and queued dispatches are reduced in submission order, each
\* after the previous queued one has finished.
C2_QueuedAfterCommitInOrder ==
    /\ \A d1 \in Ids : \A d2 \in disp[d1].during : Reduced(d1) => Committed(d2)
    /\ \A q1, q2 \in Ids :
         (q1 < q2 /\ WasQueued(q1) /\ WasQueued(q2) /\ Reduced(q2))
            => disp[q1].phase \in {"committed", "noop", "threw"}

\* C3: when every hook has resolved, no reducer has thrown and only outside
\* callers have dispatched, an engine with nothing left to do has settled the
\* promise of every queued dispatch.
C3_QueuedPromisesSettled ==
    (/\ Quiescent
     /\ \A d \in Ids : disp[d].phase \notin {"failed", "threw"}
     /\ \A d \in Ids : disp[d].origin # "hook")
        => \A d \in Ids : disp[d].outer # "pending"

\* C5: the hooks of one dispatch are called with its mutations in emission
\* order, one per mutation, the next one only after the previous has resolved.
C5_HooksInEmissionOrder ==
    \A d \in Ids :
        /\ Len(disp[d].seen) <= Len(disp[d].mutations)
        /\ \A i \in 1..Len(disp[d].seen) : disp[d].seen[i].mutation = disp[d].mutations[i]
        /\ disp[d].resolved <= Len(disp[d].seen)
        /\ Len(disp[d].seen) <= disp[d].resolved + 1
        /\ disp[d].phase \in {"looped", "committed"}
              => /\ Len(disp[d].seen) = Len(disp[d].mutations)
                 /\ disp[d].resolved = Len(disp[d].mutations)

\* C5 witness: a dispatch with two mutations has run both hooks and committed.
C5_Witness ==
    \E d \in Ids : /\ disp[d].phase = "committed"
                   /\ Len(disp[d].mutations) = 2
                   /\ Len(disp[d].seen) = 2

\* C6: after a hook has rejected, the promise of its dispatch is rejected and,
\* once the engine has nothing left to do, the marker is cleared and the queue
\* is empty.
C6_RejectedHookReleasesEngine ==
    \A d \in Ids :
        disp[d].phase = "failed"
            => /\ disp[d].promise = "rejected"
               /\ Quiescent => (transitioning = Unset /\ queue = <<>>)

\* C7: the promise of a dispatch that committed is never rejected, and a queued
\* dispatch whose reducer threw has its caller's promise rejected once the
\* engine has nothing left to do.
C7_ReducerFailureGoesToItsCaller ==
    /\ \A d \in Ids : Committed(d) => disp[d].promise # "rejected"
    /\ \A d \in Ids :
         (disp[d].phase = "threw" /\ WasQueued(d) /\ Quiescent)
            => disp[d].outer = "rejected"

\* C8: a dispatch call made while transitioning is unset, for an action the
\* reducer answers with the state it was given, resolves with null, calls no
\* hook and leaves state, marker, queue and every other dispatch as they were.
C8_NoopChangesNothing ==
    [][(/\ nd' = nd + 1
        /\ ~busy(transitioning)
        /\ LET r == reduceOf(Engine, disp'[nd'].want)
           IN  ~r.throws /\ sameState(state, r.next))
          => /\ disp'[nd'].promise = "null"
             /\ disp'[nd'].seen = <<>>
             /\ UNCHANGED <<state, heap, transitioning, queue, stack, calls, commitLog>>
             /\ \A x \in Ids \ {nd'} : disp'[x] = disp[x]]_vars

\* C8 witness: a no-op dispatch made directly (never queued) has resolved with
\* null after an earlier dispatch committed.
C8_Witness ==
    \E d \in Ids : /\ disp[d].phase = "noop"
                   /\ ~WasQueued(d)
                   /\ disp[d].promise = "null"
                   /\ commitLog # <<>>

\* C9 as stated: the promise of a queued caller is settled only when the
\* queued action has committed or was a no-op.
C9_SettledOnlyWhenCompleted ==
    \A d \in Ids :
        disp[d].outer \in {"null", "resolved", "rejected"}
            => disp[d].phase \in {"committed", "noop"}

\* C9 amended: the promise of a queued caller is settled only when the queued
\* action has finished: it has committed after all its hooks, it was a no-op,
\* or one of its hooks has rejected.  It resolves only in the first two cases,
\* and it is pending while the entry is in the queue or a hook of it is
\* running or pending.
C9_SettledOnlyWhenFinished ==
    \A d \in Ids :
        /\ disp[d].outer \in {"null", "resolved", "rejected"}
              => disp[d].phase \in {"committed", "noop", "failed"}
        /\ disp[d].outer = "resolved"
              => (disp[d].phase = "committed" /\ Committed(d)
                  /\ disp[d].resolved = Len(disp[d].mutations))
        /\ disp[d].outer = "null" => disp[d].phase = "noop"
        /\ (WasQueued(d) /\ disp[d].phase \in {"queued", "hook", "looped"})
              => disp[d].outer = "pending"
        /\ (\E i \in 1..Len(queue) : queue[i].id = d) => disp[d].outer = "pending"

\* C9 witness: a queued dispatch with a hook has committed and its caller's
\* promise has resolved.
C9_Witness ==
    \E d \in Ids : /\ disp[d].outer = "resolved"
                   /\ disp[d].phase = "committed"
                   /\ Len(disp[d].seen) >= 1

\* The promise the caller of dispatch d holds.
Returned(d) == IF WasQueued(d) THEN disp[d].outer ELSE disp[d].promise

RECURSIVE HookCalls(_)
\* The number of transition hook calls made for the dispatches 1..n.
HookCalls(n) == IF n = 0 THEN 0 ELSE Len(disp[n].seen) + HookCalls(n - 1)

\* C4: N back-to-back INC dispatches never have two hooks pending at once, and
\* when all N promises have settled the counter is the initial one plus N and
\* the hook has been called N times, once per dispatch in submission order.
C4_BackToBackIncrements ==
    /\ Cardinality({d \in Ids : disp[d].phase = "hook"}) <= 1
    /\ (nd >= 1 /\ \A d \in 1..nd : Returned(d) \in {"null", "resolved", "rejected"})
          => /\ state # Undefined
             /\ heap[state] = heap[1] + nd
             /\ HookCalls(nd) = nd
             /\ commitLog = [i \in 1..nd |-> i]
             /\ \A d \in 1..nd : Returned(d) = "resolved"

\* C4 witness: at least two back-to-back dispatches, all promises settled.
C4_Witness ==
    /\ nd >= 2
    /\ \A d \in 1..nd : Returned(d) = "resolved"
    /\ disp[2].during = {1}

\* Every stored snapshot still has the content it was pushed with.
SnapshotsIntact ==
    /\ \A i \in 1..Len(stack) : ValueOf(heap, stack[i].ref) = stack[i].at
    /\ \A i \in 1..Len(sstack) :
         \A f \in Fields : sheap[sstack[i].snap[f]] = sstack[i].at[f]

\* A step that pops a snapshot makes the live state equal to what the state
\* was when that snapshot was pushed.
PopRestores ==
    /\ Len(stack') = Len(stack) - 1
          => ValueOf(heap', state') = stack[Len(stack)].at
    /\ Len(sstack') = Len(sstack) - 1
          => \A f \in Fields : sheap'[service'[f]] = sstack[Len(sstack)].at[f]

\* C10: popState restores a state deep-equal to the state at the matching
\* pushState, whatever commits and in-place changes came between, and no
\* stored snapshot is ever altered.
C10_PushPopRoundTrip == []SnapshotsIntact /\ [][PopRestores]_vars

\* C10 witness: the initial state was pushed, then changed in place, then
\* replaced by a dispatch commit, and popState has restored the snapshot.
C10_Witness ==
    /\ stack = <<>>
    /\ npush >= 1
    /\ commitLog = <<1>>
    /\ state = 2
    /\ heap[1] = 1
    /\ heap[2] = 0

\* C11: every pushState step appends a snapshot of the live state to the
\* stack, and every popState step on a non-empty stack removes exactly the
\* last snapshot, the most recently pushed one not yet popped, and makes it
\* the live state; the snapshots below it stay as they were.
C11_SnapshotStackIsLIFO ==
    [][/\ Len(stack') = Len(stack) + 1
          => /\ SubSeq(stack', 1, Len(stack)) = stack
             /\ stack'[Len(stack')].at = ValueOf(heap, state)
       /\ Len(stack') = Len(stack) - 1
          => /\ stack' = SubSeq(stack, 1, Len(stack) - 1)
             /\ state' = stack[Len(stack)].ref
             /\ ValueOf(heap', state') = stack[Len(stack)].at
       /\ Len(sstack') = Len(sstack) + 1
          => /\ SubSeq(sstack', 1, Len(sstack)) = sstack
             /\ sstack'[Len(sstack')].at = [f \in Fields |-> sheap[service[f]]]
       /\ Len(sstack') = Len(sstack) - 1
          => /\ sstack' = SubSeq(sstack, 1, Len(sstack) - 1)
             /\ service' = sstack[Len(sstack)].snap
             /\ \A f \in Fields : sheap'[service'[f]] = sstack[Len(sstack)].at[f]]_vars

\* C11 witness: the state was pushed with counter 0, changed in place, pushed
\* again with counter 1, and two pops have restored the second snapshot and
\* then the first, leaving the stack empty as before the pushes.
C11_Witness ==
    /\ npush = 2
    /\ stack = <<>>
    /\ reduceLog = <<>>
    /\ state = 2
    /\ heap = <<1, 0, 1>>

\* C17: while a dispatch is in flight the live state is the state its reducer
\* was given, each of its hooks was called with that state and the reducer's
\* result, and a dispatch that has committed has had all its hooks resolved
\* and no longer holds the marker.
C17_LiveStateHeldUntilCommit ==
    /\ \A d \in InFlight : state = disp[d].pre
    /\ \A d \in Ids : \A i \in 1..Len(disp[d].seen) :
          /\ disp[d].seen[i].currentState = disp[d].pre
          /\ disp[d].seen[i].nextState = disp[d].next
    /\ \A d \in Ids : Committed(d)
          => /\ disp[d].resolved = Len(disp[d].mutations)
             /\ transitioning # d

\* C19: the reducer is invoked in submission order, and the queue is empty
\* whenever the marker is unset and no dispatch is in flight.
C19_ReducedInSubmissionOrder ==
    /\ \A i, j \in 1..Len(reduceLog) : i < j => reduceLog[i] < reduceLog[j]
    /\ (transitioning = Unset /\ calls = <<>> /\ InFlight = {}) => queue = <<>>


\* C18: dispatch(t, p) and dispatch({ type: t, payload: p }) are equivalent.
\* Whatever the form of the call and whether or not it was queued, the reducer
\* is given the action { type: t, payload: p }; every mutation emitted without
\* a payload carries p; and two dispatches asking for the same action from
\* states of the same value record the same mutations and the same next value.
C18_CallFormsAreEquivalent ==
    /\ \A d \in Ids : Reduced(d) =>
          /\ disp[d].action = disp[d].want
          /\ \A i \in 1..Len(disp[d].mutations) :
                disp[d].mutations[i].payload = disp[d].want.payload
    /\ \A d1, d2 \in Ids :
          (/\ Reduced(d1) /\ Reduced(d2)
           /\ disp[d1].want = disp[d2].want
           /\ ValueOf(heap, disp[d1].pre) = ValueOf(heap, disp[d2].pre))
          => /\ disp[d1].mutations = disp[d2].mutations
             /\ ValueOf(heap, disp[d1].next) = ValueOf(heap, disp[d2].next)
             /\ (disp[d1].phase = "noop") = (disp[d2].phase = "noop")

\* A payload-carrying action was asked for in both forms, the object form was
\* queued behind the positional one, and both committed.
C18_Witness ==
    \E d1, d2 \in Ids :
        /\ disp[d1].want = disp[d2].want
        /\ disp[d1].want.payload # NoPayload
        /\ ~disp[d1].args.type.obj /\ disp[d2].args.type.obj
        /\ WasQueued(d2)
        /\ Committed(d1) /\ Committed(d2)
        /\ Len(disp[d2].mutations) = 2

\* C20: every message passed to sendMessage is delivered to exactly one
\* awaitMessage call, in send order: an awaitMessage call still waiting never
\* coexists with a sent message that nobody received, an awaitMessage call
\* resolves only with a message that was sent, and the k-th awaitMessage call
\* that resolved received the k-th message sent.
C20_SentMessagesReachAwaiters ==
    /\ \A k \in AwaitIds : awaits[k].promise = "resolved" =>
          /\ ~awaits[k].value.waiter
          /\ awaits[k].value.id = k
    /\ ~(/\ \E k \in AwaitIds : awaits[k].promise = "pending"
         /\ \E i \in 1..Len(messages) : ~messages[i].waiter)

PlanDispatches(d) ==
    disp[d].type = "PLAN" /\ disp[d].want.payload # NoPayload

\* C14 as stated: a PLAN dispatch on the PokerBot commits the state it was
\* reduced from with state "ready" and the tasklist of the payload, every
\* other field unchanged, and its promise resolves after the transition hook
\* has run exactly once.
C14_PlanRunsHookOnce ==
    \A d \in Ids : (PlanDispatches(d) /\ Committed(d)) =>
        /\ heap[disp[d].next] = [heap[disp[d].pre] EXCEPT
                                    !.state = "ready",
                                    !.tasklist = disp[d].want.payload.tasklist]
        /\ Len(disp[d].seen) = 1

\* C14, amended: a PLAN dispatch on the PokerBot commits the state it was
\* reduced from with state "ready" and the tasklist of the payload, every
\* other field unchanged; PokerBot.reduce emits no mutation, so the transition
\* hook is never called for it; and its promise is resolved only once the
\* state is committed.
C14_PlanCommitsReadyState ==
    /\ \A d \in Ids : (PlanDispatches(d) /\ Reduced(d)) =>
          /\ heap[disp[d].next] = [heap[disp[d].pre] EXCEPT
                                      !.state = "ready",
                                      !.tasklist = disp[d].want.payload.tasklist]
          /\ disp[d].mutations = <<>>
          /\ disp[d].seen = <<>>
          /\ disp[d].promise = "resolved" => Committed(d)
          /\ Returned(d) = "resolved" => Committed(d)
    /\ (commitLog # <<>> /\ transitioning = Unset) =>
          state = disp[commitLog[Len(commitLog)]].next

\* The first dispatch, { type: "PLAN", payload: { tasklist } } on the waiting
\* bot, has committed and its promise has resolved.
C14_Witness ==
    /\ disp[1].args.type.obj
    /\ PlanDispatches(1)
    /\ heap[disp[1].pre].state = "waiting"
    /\ Committed(1)
    /\ disp[1].promise = "resolved"
    /\ heap[state].state = "ready"
    /\ heap[state].tasklist = <<"teamwork", ".", "com", "/y">>

\* C15: the "plan" handler called with content in which /teamwork.com/ finds
\* nothing makes no dispatch call, leaves the bot state, the queue and every
\* dispatch record as they were, sends exactly one message { content: "Uh oh,
\* I don't recognize that tasklist!", to: author } and returns a resolved
\* promise; called with content the pattern matches (its dot standing for any
\* character) it sends no message and makes exactly one dispatch call,
\* dispatch("PLAN", { tasklist: content }).
C15_PlanHandlerValidatesTasklist ==
    [][Len(plans') = Len(plans) + 1 =>
        LET c == plans'[Len(plans')]
            unrecognised == {<<"teamwork", ".", "co">>, <<"teamwork", "com">>, <<"hello">>}
            uhoh == Sent(nsend', [content |-> "Uh oh, I don't recognize that tasklist!",
                                  to |-> c.author])
        IN  IF c.content \in unrecognised
            THEN /\ nd' = nd
                 /\ UNCHANGED <<state, heap, queue, transitioning, disp, reduceLog, commitLog>>
                 /\ nsend' = nsend + 1
                 /\ \/ messages' = Append(messages, uhoh) /\ UNCHANGED <<awaiting, awaits>>
                    \/ /\ awaiting # <<>>
                       /\ awaiting' = Tail(awaiting)
                       /\ awaits'[Head(awaiting).id] = [promise |-> "resolved", value |-> uhoh]
                       /\ UNCHANGED messages
                 /\ c.returned = "resolved"
            ELSE /\ nsend' = nsend
                 /\ UNCHANGED <<messages, awaiting, awaits>>
                 /\ nd' = nd + 1
                 /\ disp[nd'].phase = "idle"
                 /\ disp'[nd'].phase # "idle"
                 /\ disp'[nd'].args = [type |-> Str("PLAN"),
                                       payload |-> [tasklist |-> c.content]]
                 /\ \A d \in Ids \ {nd'} : disp'[d].args = disp[d].args
                 /\ c.returned = "dispatch"]_vars

\* The handler has turned away an unrecognised tasklist with a message to its
\* author, and has dispatched PLAN for a content matched through the dot of
\* the pattern, which was queued behind a dispatch in flight.
C15_Witness ==
    /\ \E i \in 1..Len(plans) :
          plans[i].content = <<"teamwork", ".", "co">> /\ plans[i].returned = "resolved"
    /\ \E i \in 1..Len(messages) : messages[i].message.content = UhOh
    /\ \E d \in Ids :
          /\ disp[d].want = [type |-> "PLAN", payload |-> [tasklist |-> <<"teamwork", "X", "com">>]]
          /\ WasQueued(d)
          /\ Committed(d)

C13_TestDelegatesThenReturnsFalse ==
    /\ [](/\ tc.match = "false" =>
                /\ tc.handled = 0
                /\ tc.result = "undefined"
          /\ tc.match \in {"same", "tail"} =>
                /\ tc.handled = 1
                /\ hm.level = tc.level + 1
                /\ hm.message.author = tc.message.author
                /\ hm.message.content =
                      IF tc.match = "tail" THEN Tail(tc.message.content)
                                           ELSE tc.message.content
                /\ tc.result \in {"none", "false", "rejected"}
                /\ tc.result = "none" => tc.phase = "awaiting"
                /\ tc.result = "false" =>
                      /\ hm.phase = "done"
                      /\ Len(hm.results) = Len(hm.invoked)
                      /\ hm.invoked = hm.tested.actions
                /\ tc.result = "rejected" => hm.phase = "failed")
    /\ [][(tc' # tc /\ tc'.match = "false") => UNCHANGED <<hm, mounted>>]_vars

\* test was called at level 1 with a match that rewrites the message, the
\* handling ran two handlers, and test has returned false.
C13_Witness ==
    /\ tc.match = "tail"
    /\ tc.level = 1
    /\ tc.result = "false"
    /\ hm.message.content = <<"x">>
    /\ Len(hm.results) = 2

\* C16: a request that is not a POST, else whose body has no method, else
\* whose method names nothing on the service, is answered with status 500
\* and the error envelope carrying the message of the first of these checks
\* that fails; no service method is invoked and no state of the bot or the
\* service changes; and every request received, also after such an answer,
\* gets its response.
C16_BadRequestsAreRejected ==
    /\ [](nreq > 0 => request # NoRequest /\ response # NoResponse)
    /\ [][nreq' = nreq + 1 =>
            LET req == request'
                rejected(text, name) ==
                    /\ response'.status = 500
                    /\ response'.error
                    /\ response'.message = [text |-> text, name |-> name]
                    /\ UNCHANGED <<engineVars, stack, serviceVars, npush, nedit, ninvoked>>
            IN  /\ req.method # "POST" =>
                      rejected("The bot API only accepts POST requests.", "")
                /\ (req.method = "POST" /\ req.json = "object" /\ req.call = "") =>
                      rejected("Body missing method property.", "")
                /\ (req.method = "POST" /\ req.json = "object" /\ req.call = "unknownFn") =>
                      rejected("Bot does not have method", "unknownFn")
                /\ ninvoked' # ninvoked =>
                      /\ req.method = "POST"
                      /\ req.call \in {"pushState", "popState"}
                      /\ response'.status = 200
                      /\ ~response'.error]_vars

\* After a request for an unknown method was turned away with the envelope,
\* with a snapshot on the service's stack left as it was, the server has
\* answered it, having served a pushState request before.
C16_Witness ==
    /\ nreq = 3
    /\ request = [method |-> "POST", json |-> "object", call |-> "unknownFn"]
    /\ response = [status |-> 500, error |-> TRUE,
                   message |-> [text |-> "Bot does not have method", name |-> "unknownFn"]]
    /\ ninvoked = 1
    /\ Len(sstack) = 1

====
